---- MODULE Spec2Model ----
(***************************************************************************)
(* PF_Tek air-exchange controller (HesseHamalainen/AVR).                    *)
(*                                                                         *)
(* Two firmware variants are modelled, one step of loop() at a time:        *)
(*   "dual"   - PF_Tek1.3, src/unnamed/part_000: EEPROM holds Uptime,       *)
(*              AirStatus, AirStart, AirStop;                               *)
(*   "single" - PF_Tek1.3 (older design), src/unnamed/part_001, whose       *)
(*              timekeeping and air logic are line for line those of        *)
(*              src/PF_Tek1_2.ino: EEPROM holds Uptime, AirStatus, AirTime. *)
(*                                                                         *)
(* Time is counted in ticks of the model clock.  All uint32_t values of the *)
(* firmware are kept modulo WordMod = 2^WordBits, so that wraparound of the *)
(* hardware tick and of the cumulative uptime happens inside the model.     *)
(* Power may fail at any step; the EEPROM record ee survives, everything    *)
(* else is reset.                                                          *)
(***************************************************************************)
EXTENDS Integers, Sequences, FiniteSets, TLC

(***************************************************************************)
(* Bounds of the model.                                                     *)
(***************************************************************************)
\* width of the firmware's uint32_t, scaled down
WordBits == 4
\* millis() ticks per second of the model clock (1000 on the hardware)
TicksPerSecond == 1
\* the build's AIR_INTERVAL, AIR_DURATION, UPTIME_STORE_INTERVAL in seconds,
\* scaled down from 3600 / 120 / 60
DefaultInterval == 6
DefaultDuration == 3
DefaultStore == 2
\* longest pass of loop() incl. delay(1000), in ticks
MaxDelta == 2
\* most ticks, per boot, that elapse between the two millis() reads of countTime
MaxSkew == 1
\* longest setup(), in ticks
MaxBoot == 1

VARIABLES
    variant,                \* which firmware is flashed: "dual" or "single"
    wordBits,               \* width of unsigned long in this run of the model
    AIR_INTERVAL,           \* #define AIR_INTERVAL          (seconds)
    AIR_DURATION,           \* #define AIR_DURATION          (seconds)
    UPTIME_STORE_INTERVAL,  \* #define UPTIME_STORE_INTERVAL (seconds)
    pc,                     \* position of the program
    millis,                 \* the hardware's free-running tick counter
    uptime, uptimeStoreTime, previousUptime,
    airStatus, airStart, airStop,        \* globals of both variants
    lastAir, timeSinceAir,               \* globals of the single variant
    ee,                     \* the EEPROM
    pin,                    \* actuator line, pin 6: 1 = HIGH
    skipped,                \* ticks that fell between the two millis() reads since boot
    \* history variables; no action's guard or assignment reads them
    losses,                 \* "none", "boundary" or "mid": worst power loss so far
    firstCycle,             \* TRUE from setup() until the first loop() pass ends
    ran,                    \* ticks counted since ee.AirStatus last changed (saturating)
    elapsed,                \* true ticks since previousUptime was read
    writes,                 \* EEPROM fields written in this pass of loop()
    wrapped                 \* the cumulative uptime has overflowed the word

conf == <<variant, wordBits, AIR_INTERVAL, AIR_DURATION, UPTIME_STORE_INTERVAL>>
clock == <<millis, skipped, elapsed>>
air == <<airStatus, airStart, airStop, lastAir, timeSinceAir>>
vars == <<conf, pc, clock, uptime, uptimeStoreTime, previousUptime, air, ee, pin,
          losses, firstCycle, ran, writes, wrapped>>

WordMod == 2 ^ wordBits

(***************************************************************************)
(* uint32_t arithmetic                                                      *)
(***************************************************************************)
Add32(a, b) == (a + b) % WordMod

\* a subtraction that clamps instead of wrapping
Sub32Signed(a, b) == IF a >= b THEN a - b ELSE 0
Sub32(a, b) == (a - b) % WordMod

TO_MACHINE_TIME(X) == X * TicksPerSecond

RanCap == TO_MACHINE_TIME(AIR_INTERVAL) + 1
Min(a, b) == IF a < b THEN a ELSE b

(***************************************************************************)
(* Guards                                                                   *)
(***************************************************************************)
\* airOn looking at the EEPROM cell instead of the copy read at the top of loop()
airOnStored == ee.AirStatus = 1
airOn == airStatus = 1
isAir == airStatus = 1

\* the guards below, each also with its boundary moved by one tick
scheduledAirGE == Sub32(uptime, airStop) >= TO_MACHINE_TIME(AIR_INTERVAL)
scheduledAir == Sub32(uptime, airStop) > TO_MACHINE_TIME(AIR_INTERVAL)

needAirLE == Sub32(uptime, airStart) <= TO_MACHINE_TIME(AIR_DURATION)
needAir == Sub32(uptime, airStart) < TO_MACHINE_TIME(AIR_DURATION)

needAirSingle ==
    IF isAir
    THEN Sub32(uptime, airStart) < TO_MACHINE_TIME(AIR_DURATION)
    ELSE timeSinceAir > TO_MACHINE_TIME(AIR_INTERVAL)

periodicUptimeSaveGE ==
    uptime >= Add32(uptimeStoreTime, TO_MACHINE_TIME(UPTIME_STORE_INTERVAL))
periodicUptimeSave ==
    uptime > Add32(uptimeStoreTime, TO_MACHINE_TIME(UPTIME_STORE_INTERVAL))

(***************************************************************************)
(* EEPROM                                                                   *)
(***************************************************************************)
BlankEeprom == [Uptime |-> 0, AirStatus |-> 0, AirStart |-> 0, AirStop |-> 0,
                AirTime |-> 0]

\* EEPROM.updateByte / updateLong: the cell is written only if the value differs
EepromUpdate(field, v) ==
    /\ ee' = [ee EXCEPT ![field] = v]
    /\ writes' = IF ee[field] = v THEN writes ELSE Append(writes, field)

\* EEPROM.writeLong: the cell is always written
EepromWrite(field, v) ==
    /\ ee' = [ee EXCEPT ![field] = v]
    /\ writes' = Append(writes, field)

\* the history of the persisted air state: ran restarts when AirStatus changes
RanAfterStatus(v) == IF ee.AirStatus = v THEN ran ELSE 0

\* storeUptime as built with DISABLE_WRITE: only the volatile copy moves
storeUptimeVolatile ==
    /\ uptimeStoreTime' = uptime
    /\ UNCHANGED <<ee, writes>>

storeUptime ==
    /\ uptimeStoreTime' = uptime
    /\ EepromWrite("Uptime", uptime)

(***************************************************************************)
(* Initial state: first power-on with blank storage                        *)
(***************************************************************************)
Volatile0 ==
    /\ millis = 0
    /\ uptime = 0
    /\ uptimeStoreTime = 0
    /\ previousUptime = 0
    /\ airStatus = 0
    /\ airStart = 0
    /\ airStop = 0
    /\ lastAir = 0
    /\ timeSinceAir = 0
    /\ pin = 0
    /\ skipped = 0

Hist0 ==
    /\ losses = "none"
    /\ firstCycle = TRUE
    /\ ran = 0
    /\ elapsed = 0
    /\ writes = << >>
    /\ wrapped = FALSE

DefaultBuild ==
    /\ wordBits = WordBits
    /\ AIR_INTERVAL = DefaultInterval
    /\ AIR_DURATION = DefaultDuration
    /\ UPTIME_STORE_INTERVAL = DefaultStore

Init ==
    /\ variant \in {"dual", "single"}
    /\ DefaultBuild
    /\ pc = "boot"
    /\ ee = BlankEeprom
    /\ Volatile0
    /\ Hist0

(***************************************************************************)
(* Power                                                                    *)
(***************************************************************************)
\* between two passes of loop(), or before the first one
AtCycleBoundary == pc = "count1"

PowerLoss ==
    /\ pc # "boot"
    /\ pc' = "boot"
    /\ millis' = 0
    /\ skipped' = 0
    /\ elapsed' = 0
    /\ uptime' = 0
    /\ uptimeStoreTime' = 0
    /\ previousUptime' = 0
    /\ airStatus' = 0
    /\ airStart' = 0
    /\ airStop' = 0
    /\ lastAir' = 0
    /\ timeSinceAir' = 0
    /\ pin' = 0
    /\ losses' = IF AtCycleBoundary /\ losses # "mid" THEN "boundary" ELSE "mid"
    /\ firstCycle' = TRUE
    /\ writes' = << >>
    /\ UNCHANGED <<conf, ee, ran, wrapped>>

\* ticks that setup() takes: part_000 waits delay(50) + delay(2000),
\* part_001 does not wait
SetupTicks == IF variant = "dual" THEN 1 .. MaxBoot ELSE 0 .. MaxBoot

\* initUptime, and initAir in part_001
Setup ==
    /\ pc = "boot"
    /\ \E b \in SetupTicks :
        /\ millis' = b
        /\ elapsed' = b
    /\ uptime' = ee.Uptime
    /\ uptimeStoreTime' = ee.Uptime
    /\ airStart' = IF variant = "single" THEN ee.AirTime ELSE airStart
    /\ pc' = "count1"
    /\ UNCHANGED <<conf, skipped, previousUptime, airStatus, airStop, lastAir,
                   timeSinceAir, ee, pin, losses, wrapped, firstCycle, ran, writes>>

(***************************************************************************)
(* countTime / updateLocalUptime                                            *)
(***************************************************************************)
\* uptime += (millis() - previousUptime);
CountTimeAdd ==
    /\ pc = "count1"
    /\ LET delta == Sub32(millis, previousUptime) IN
        /\ uptime' = Add32(uptime, delta)
        /\ ran' = Min(ran + delta, RanCap)
        /\ wrapped' = (wrapped \/ uptime + delta >= WordMod)
    /\ pc' = "count2"
    /\ writes' = << >>
    /\ UNCHANGED <<conf, clock, uptimeStoreTime, previousUptime, air, ee, pin, losses,
                   firstCycle>>

\* previousUptime = millis();  the tick may have moved since the first read
CountTimeSet ==
    /\ pc = "count2"
    /\ \E e \in 0 .. (MaxSkew - skipped) :
        /\ millis' = Add32(millis, e)
        /\ previousUptime' = Add32(millis, e)
        /\ skipped' = skipped + e
    /\ elapsed' = 0
    /\ pc' = "read"
    /\ UNCHANGED <<conf, uptime, uptimeStoreTime, air, ee, pin, losses, wrapped, firstCycle, ran, writes>>

(***************************************************************************)
(* loop(), part_000                                                         *)
(***************************************************************************)
\* the three EEPROM reads, then
\* if (!airOn()) { if (scheduledAir()) { setAirOn(); } }
ReadAir ==
    /\ pc = "read"
    /\ variant = "dual"
    /\ airStatus' = ee.AirStatus
    /\ airStart' = ee.AirStart
    /\ airStop' = ee.AirStop
    /\ UNCHANGED <<conf, clock, uptime, uptimeStoreTime, previousUptime, lastAir,
                   timeSinceAir, ee, pin, losses, wrapped, firstCycle, ran, writes>>
    /\ pc' = IF ~airOn' /\ scheduledAir' THEN "on1" ELSE "need"

SetAirOnStatus ==
    /\ pc = "on1"
    /\ EepromUpdate("AirStatus", 1)
    /\ ran' = RanAfterStatus(1)
    /\ pc' = "on2"
    /\ UNCHANGED <<conf, clock, uptime, uptimeStoreTime, previousUptime, air, pin,
                   losses, wrapped, firstCycle>>

SetAirOnStart ==
    /\ pc = "on2"
    /\ EepromUpdate("AirStart", uptime)
    /\ pc' = "on3"
    /\ UNCHANGED <<conf, clock, uptime, uptimeStoreTime, previousUptime, air, pin,
                   losses, wrapped, firstCycle, ran>>

SetAirOnStore ==
    /\ pc = "on3"
    /\ storeUptime
    /\ pc' = "need"
    /\ UNCHANGED <<conf, clock, uptime, previousUptime, air, pin, losses, wrapped, firstCycle,
                   ran>>

\* if (airOn()) { if (needAir()) deviceSetOn(); else { setAirOff(); deviceSetOff(); } }
Need ==
    /\ pc = "need"
    /\ IF airOn
       THEN IF needAir
            THEN pin' = 1 /\ pc' = "save"
            ELSE pin' = pin /\ pc' = "off1"
       ELSE pin' = pin /\ pc' = "save"
    /\ UNCHANGED <<conf, clock, uptime, uptimeStoreTime, previousUptime, air, ee,
                   losses, wrapped, firstCycle, ran, writes>>

SetAirOffStatus ==
    /\ pc = "off1"
    /\ EepromUpdate("AirStatus", 0)
    /\ ran' = RanAfterStatus(0)
    /\ pc' = "off2"
    /\ UNCHANGED <<conf, clock, uptime, uptimeStoreTime, previousUptime, air, pin,
                   losses, wrapped, firstCycle>>

SetAirOffStop ==
    /\ pc = "off2"
    /\ EepromUpdate("AirStop", uptime)
    /\ pc' = "off3"
    /\ UNCHANGED <<conf, clock, uptime, uptimeStoreTime, previousUptime, air, pin,
                   losses, wrapped, firstCycle, ran>>

\* the last write of setAirOff, then deviceSetOff
SetAirOffStore ==
    /\ pc = "off3"
    /\ storeUptime
    /\ pin' = 0
    /\ pc' = "save"
    /\ UNCHANGED <<conf, clock, uptime, previousUptime, air, losses, wrapped, firstCycle, ran>>

(***************************************************************************)
(* loop(), part_001 and PF_Tek1_2.ino                                       *)
(***************************************************************************)
\* the two EEPROM reads and calculateTimeSinceAir
ReadAirSingle ==
    /\ pc = "read"
    /\ variant = "single"
    /\ airStatus' = ee.AirStatus
    /\ lastAir' = ee.AirTime
    /\ timeSinceAir' = Sub32(uptime, ee.AirTime)
    /\ pc' = "air"
    /\ UNCHANGED <<conf, clock, uptime, uptimeStoreTime, previousUptime, airStart,
                   airStop, ee, pin, losses, wrapped, firstCycle, ran, writes>>

\* airStart = uptime; EEPROM.updateByte(addressAirStatus, 1); digitalWrite(6, HIGH)
startAir ==
    /\ airStart' = uptime
    /\ EepromUpdate("AirStatus", 1)
    /\ ran' = RanAfterStatus(1)
    /\ pin' = 1

\* if (needAir()) { if (!isAir()) startAir(); } else { if (isAir()) stopAir(); }
Air ==
    /\ pc = "air"
    /\ IF needAirSingle
       THEN IF ~isAir
            THEN startAir /\ pc' = "save"
            ELSE /\ pc' = "save"
                 /\ UNCHANGED <<airStart, ee, writes, ran, pin>>
       ELSE /\ pc' = IF isAir THEN "stop1" ELSE "save"
            /\ UNCHANGED <<airStart, ee, writes, ran, pin>>
    /\ UNCHANGED <<conf, clock, uptime, uptimeStoreTime, previousUptime, airStatus,
                   airStop, lastAir, timeSinceAir, losses, wrapped, firstCycle>>

\* stopAir: EEPROM.updateLong(addressAirTime, uptime)
StopAirTime ==
    /\ pc = "stop1"
    /\ EepromUpdate("AirTime", uptime)
    /\ pc' = "stop2"
    /\ UNCHANGED <<conf, clock, uptime, uptimeStoreTime, previousUptime, air, pin,
                   losses, wrapped, firstCycle, ran>>

\* stopAir: EEPROM.updateByte(addressAirStatus, 0); digitalWrite(6, LOW)
StopAirStatus ==
    /\ pc = "stop2"
    /\ EepromUpdate("AirStatus", 0)
    /\ ran' = RanAfterStatus(0)
    /\ pin' = 0
    /\ pc' = "save"
    /\ UNCHANGED <<conf, clock, uptime, uptimeStoreTime, previousUptime, air, losses, wrapped,
                   firstCycle>>

(***************************************************************************)
(* The end of loop(), both variants                                         *)
(***************************************************************************)
\* if (periodicUptimeSave()) { storeUptime(); }
\* then delay(1000) and whatever else passes before the next countTime:
\* only the tick moves
Save ==
    /\ pc = "save"
    /\ IF periodicUptimeSave
       THEN storeUptime
       ELSE UNCHANGED <<uptimeStoreTime, ee, writes>>
    /\ \E d \in 1 .. MaxDelta :
        /\ millis' = Add32(millis, d)
        /\ elapsed' = elapsed + d
    /\ firstCycle' = FALSE
    /\ pc' = "count1"
    /\ UNCHANGED <<conf, skipped, uptime, previousUptime, air, pin, losses, wrapped, ran>>

Next ==
    \/ PowerLoss
    \/ Setup
    \/ CountTimeAdd
    \/ CountTimeSet
    \/ ReadAir
    \/ SetAirOnStatus
    \/ SetAirOnStart
    \/ SetAirOnStore
    \/ Need
    \/ SetAirOffStatus
    \/ SetAirOffStop
    \/ SetAirOffStore
    \/ ReadAirSingle
    \/ Air
    \/ StopAirTime
    \/ StopAirStatus
    \/ Save

Spec == Init /\ [][Next]_vars

(***************************************************************************)
(* The worked scenario: the dual variant built with 10 s / 2 s / 5 s, every *)
(* pass of loop() exactly one second after the last, the first at uptime 0, *)
(* no power loss.  The word is wide enough for the run not to wrap.         *)
(***************************************************************************)
ScenarioBits == 6

ScenarioBuild ==
    /\ wordBits = ScenarioBits
    /\ AIR_INTERVAL = 10
    /\ AIR_DURATION = 2
    /\ UPTIME_STORE_INTERVAL = 5

InitScenario ==
    /\ variant = "dual"
    /\ ScenarioBuild
    /\ pc = "count1"
    /\ ee = BlankEeprom
    /\ Volatile0
    /\ Hist0

\* both millis() reads of countTime return the same tick
CountTimeSetScenario == CountTimeSet /\ millis' = millis

\* delay(1000): the next pass starts one second later
SaveScenario == Save /\ millis' = Add32(millis, TO_MACHINE_TIME(1))

NextScenario ==
    \/ CountTimeAdd
    \/ CountTimeSetScenario
    \/ ReadAir
    \/ SetAirOnStatus
    \/ SetAirOnStart
    \/ SetAirOnStore
    \/ Need
    \/ SetAirOffStatus
    \/ SetAirOffStop
    \/ SetAirOffStore
    \/ SaveScenario

SpecScenario == InitScenario /\ [][NextScenario]_vars

(***************************************************************************)
(* Power stays on: setup() once, then loop() again and again, as the        *)
(* Arduino core's main() calls it in for (;;).                              *)
(***************************************************************************)
NextRun ==
    \/ Setup
    \/ CountTimeAdd
    \/ CountTimeSet
    \/ ReadAir
    \/ SetAirOnStatus
    \/ SetAirOnStart
    \/ SetAirOnStore
    \/ Need
    \/ SetAirOffStatus
    \/ SetAirOffStop
    \/ SetAirOffStore
    \/ ReadAirSingle
    \/ Air
    \/ StopAirTime
    \/ StopAirStatus
    \/ Save

SpecLive == Init /\ [][NextRun]_vars /\ WF_vars(NextRun)

(***************************************************************************)
(* Power is lost only between two passes of loop(); while it is on, the     *)
(* program keeps running.                                                   *)
(***************************************************************************)
BoundaryLoss == AtCycleBoundary /\ PowerLoss

NextBoundary == NextRun \/ BoundaryLoss

SpecBoundary == Init /\ [][NextBoundary]_vars /\ WF_vars(NextRun)

(***************************************************************************)
(* Every build: the three #define constants chosen freely, zero included.   *)
(***************************************************************************)
MaxBuild == 2

AnyBuild ==
    /\ wordBits = WordBits
    /\ AIR_INTERVAL \in 0 .. MaxBuild
    /\ AIR_DURATION \in 0 .. MaxBuild
    /\ UPTIME_STORE_INTERVAL = DefaultStore

InitBuilds ==
    /\ variant \in {"dual", "single"}
    /\ AnyBuild
    /\ pc = "boot"
    /\ ee = BlankEeprom
    /\ Volatile0
    /\ Hist0

SpecBuilds == InitBuilds /\ [][Next]_vars

(***************************************************************************)
(* Properties                                                               *)
(***************************************************************************)
Dual == variant = "dual"
Single == variant = "single"
AIR_INTERVAL_MS == TO_MACHINE_TIME(AIR_INTERVAL)
AIR_DURATION_MS == TO_MACHINE_TIME(AIR_DURATION)
UPTIME_STORE_INTERVAL_MS == TO_MACHINE_TIME(UPTIME_STORE_INTERVAL)

\* a pass of loop() has just ended; the globals still hold what it read
EndOfCycle == pc = "count1" /\ ~firstCycle
\* this step writes the Uptime cell
UptimeWritten == Len(writes') > Len(writes) /\ writes'[Len(writes')] = "Uptime"
InSetAirOn == pc \in {"on1", "on2", "on3"}
InSetAirOff == pc \in {"off1", "off2", "off3"}

\* C1: booting the dual variant from a snapshot (Uptime = U, AirStatus = ON,
\* AirStart = S) with U - S < AIR_DURATION_MS, the first pass of loop() runs
\* neither setAirOn nor setAirOff, so the persisted state stays ON.
C1_SnapshotStaysOn ==
    ( /\ Dual
      /\ firstCycle
      /\ writes = << >>
      /\ ee.AirStatus = 1
      /\ ee.Uptime >= ee.AirStart
      /\ ee.Uptime - ee.AirStart < AIR_DURATION_MS )
    => ~InSetAirOn /\ ~InSetAirOff

\* C2: single variant, power lost only at cycle boundaries: the first pass of
\* loop() after a reboot does not run stopAir while less than AIR_DURATION_MS
\* of uptime has been counted since startAir persisted ON.
C2_RebootKeepsAirOn ==
    (Single /\ losses = "boundary" /\ firstCycle /\ ee.AirStatus = 1 /\ ran < AIR_DURATION_MS)
    => pc # "stop1"

\* C3: dual variant, power lost at any step: the persisted state goes ON -> OFF
\* only after at least AIR_DURATION_MS of counted uptime in ON, and OFF -> ON
\* only after more than AIR_INTERVAL_MS of counted uptime in OFF.
C3_NoSkipNoRetrigger ==
    [][ Dual =>
        /\ (ee.AirStatus = 1 /\ ee'.AirStatus = 0 => ran >= AIR_DURATION_MS)
        /\ (ee.AirStatus = 0 /\ ee'.AirStatus = 1 => ran > AIR_INTERVAL_MS) ]_vars

\* C4: dual variant, a pass of loop() that read AirStatus = OFF and AirStop = 0:
\* if its uptime exceeds AIR_INTERVAL_MS it has persisted AirStatus = 1 and
\* AirStart = uptime, otherwise it has left the state OFF and written nothing
\* about the air state.
C4_FirstScheduledAir ==
    (Dual /\ EndOfCycle /\ airStatus = 0 /\ airStop = 0)
    => IF uptime > AIR_INTERVAL_MS
       THEN ee.AirStatus = 1 /\ ee.AirStart = uptime
       ELSE ee.AirStatus = 0 /\ writes \in {<< >>, <<"Uptime">>}

C4_Witness ==
    /\ Dual /\ EndOfCycle /\ airStatus = 0 /\ airStop = 0
    /\ losses = "none"
    /\ uptime > AIR_INTERVAL_MS
    /\ ee.AirStatus = 1 /\ ee.AirStart = uptime

\* C5: without power loss, with ran the uptime counted since ON was persisted
\* (uptime - t0): the ON -> OFF transition never starts before ran reaches
\* AIR_DURATION_MS, a pass that read ON and leaves the state ON has
\* ran < AIR_DURATION_MS, and a pass that read ON and leaves it OFF has
\* persisted the stop timestamp = uptime.
C5_DurationBound ==
    losses = "none" =>
        /\ (pc \in {"off1", "stop1"} => ran >= AIR_DURATION_MS)
        /\ (EndOfCycle /\ airStatus = 1 /\ ee.AirStatus = 1 => ran < AIR_DURATION_MS)
        /\ (EndOfCycle /\ airStatus = 1 /\ ee.AirStatus = 0 =>
                IF Dual THEN ee.AirStop = uptime ELSE ee.AirTime = uptime)

C5_Witness ==
    /\ losses = "none" /\ Dual /\ EndOfCycle
    /\ airStatus = 1 /\ ee.AirStatus = 0 /\ ee.AirStop = uptime
    /\ Sub32(uptime, airStart) >= AIR_DURATION_MS

\* C6 as claimed: every durable uptime write of the dual variant, forced or
\* periodic, comes more than UPTIME_STORE_INTERVAL_MS of uptime after the
\* previous one.
C6_EveryWriteThrottled ==
    [][ Dual /\ UptimeWritten => uptime - ee.Uptime > UPTIME_STORE_INTERVAL_MS ]_vars

\* C6 amended: every durable uptime write made by the periodic checkpoint of
\* the dual variant comes more than UPTIME_STORE_INTERVAL_MS of uptime after
\* the previous durable uptime write, as long as uptimeStoreTime +
\* UPTIME_STORE_INTERVAL_MS does not overflow the word.
C6_PeriodicWriteThrottled ==
    [][ ( /\ Dual
          /\ pc = "save"
          /\ UptimeWritten
          /\ uptimeStoreTime + UPTIME_STORE_INTERVAL_MS < WordMod )
        => uptime - ee.Uptime > UPTIME_STORE_INTERVAL_MS ]_vars

C6_Witness == Dual /\ EndOfCycle /\ writes = <<"Uptime">> /\ ee.Uptime = uptime

\* C7: outside a storage write, uptime is never more than
\* UPTIME_STORE_INTERVAL_MS ahead of the last persisted uptime.
C7_BoundedUptimeLoss ==
    pc # "boot" => uptime - uptimeStoreTime <= UPTIME_STORE_INTERVAL_MS

\* C8: single variant, power lost only at cycle boundaries: once setup() has
\* run, the persisted AirTime is never ahead of uptime.
C8_AirTimeNotAhead ==
    (Single /\ pc # "boot" /\ losses # "mid") => ee.AirTime <= uptime

\* C9: without power loss, after countTime has stored previousUptime, uptime
\* equals the boot uptime (0 on blank storage) plus the ticks elapsed up to
\* previousUptime.
C9_ExactSum ==
    (losses = "none" /\ pc \notin {"boot", "count1", "count2"})
    => uptime = previousUptime

\* C10: when the tick read by countTime is numerically below previousUptime
\* (the counter wrapped once), the delta added to uptime is the true number
\* of ticks elapsed since previousUptime was read.
C10_WrapDelta ==
    [][ pc = "count1" /\ pc' = "count2" /\ millis < previousUptime
        => uptime' = Add32(uptime, elapsed) ]_vars

C10_Witness == pc = "count2" /\ millis < previousUptime /\ elapsed > 0

\* the fields written by the pass of loop() that has just ended
Written == {writes[i] : i \in DOMAIN writes}
Seconds(set) == {TO_MACHINE_TIME(t) : t \in set}

\* C11 as claimed: in the 10 s / 2 s / 5 s scenario the passes that change the
\* persisted AirStatus are those at uptime 10 s (ON, AirStart = 10 s), 12 s
\* (OFF, AirStop = 12 s) and 20 s (ON), and the durable uptime writes fall at
\* or one pass after 5 s, at 10 s, at or one pass after 15 s, and at 20 s.
C11_ScenarioAsStated ==
    (EndOfCycle /\ ~wrapped /\ uptime <= TO_MACHINE_TIME(20)) =>
        /\ ("AirStatus" \in Written <=> uptime \in Seconds({10, 12, 20}))
        /\ (uptime \in Seconds({10, 20}) => ee.AirStatus = 1 /\ ee.AirStart = uptime)
        /\ (uptime \in Seconds({12}) => ee.AirStatus = 0 /\ ee.AirStop = uptime)
        /\ ("Uptime" \in Written => uptime \in Seconds({5, 6, 10, 12, 15, 16, 20}))
        /\ (uptime \in Seconds({10, 12, 20}) => "Uptime" \in Written)

\* C11 amended: in the 10 s / 2 s / 5 s scenario the passes that change the
\* persisted AirStatus are exactly those at uptime 11 s (ON, AirStart = 11 s),
\* 13 s (OFF, AirStop = 13 s) and 24 s (ON, AirStart = 24 s), and the durable
\* uptime writes happen exactly in the passes at 6 s, 11 s, 13 s, 19 s, 24 s.
C11_Scenario ==
    (EndOfCycle /\ ~wrapped /\ uptime <= TO_MACHINE_TIME(24)) =>
        /\ ("AirStatus" \in Written <=> uptime \in Seconds({11, 13, 24}))
        /\ (uptime \in Seconds({11, 24}) => ee.AirStatus = 1 /\ ee.AirStart = uptime)
        /\ (uptime \in Seconds({13}) => ee.AirStatus = 0 /\ ee.AirStop = uptime)
        /\ ("Uptime" \in Written <=> uptime \in Seconds({6, 11, 13, 19, 24}))

C11_Witness ==
    /\ EndOfCycle /\ ~wrapped
    /\ AIR_INTERVAL = 10 /\ AIR_DURATION = 2 /\ UPTIME_STORE_INTERVAL = 5
    /\ uptime = TO_MACHINE_TIME(24)
    /\ ee.AirStatus = 1 /\ ee.AirStart = uptime /\ ee.AirStop = TO_MACHINE_TIME(13)
    /\ writes = <<"AirStatus", "AirStart", "Uptime">>

\* C12: dual variant: when a pass of loop() has ended, pin 6 is HIGH exactly
\* if the persisted AirStatus is ON; so the pass that ran setAirOn has driven
\* the pin HIGH and the pass that ran setAirOff has driven it LOW.
C12_PinFollowsStatus ==
    (Dual /\ EndOfCycle) => (pin = 1 <=> ee.AirStatus = 1)

\* C13: whenever a transition guard is about to be evaluated, the AirStatus
\* and the timestamp it uses equal what durable storage holds: Need reads
\* airStart (dual), Air reads airStart when ON and timeSinceAir, computed
\* from AirTime, when OFF (single).
C13_ReadBack ==
    /\ (pc = "need" /\ airOn => airStatus = ee.AirStatus /\ airStart = ee.AirStart)
    /\ (pc = "air" =>
            /\ airStatus = ee.AirStatus
            /\ IF isAir
               THEN airStart = ee.AirTime
               ELSE timeSinceAir = Sub32(uptime, ee.AirTime))

\* the pass of loop() under way has read the air state and none of its
\* transition guards fires: ON with uptime - start < AIR_DURATION_MS, or OFF
\* with uptime - stop <= AIR_INTERVAL_MS
NoGuardFires ==
    \/ /\ Dual
       /\ pc \in {"need", "save"}
       /\ airStatus = ee.AirStatus
       /\ IF airOn THEN needAir ELSE ~scheduledAir
    \/ /\ Single
       /\ pc \in {"air", "save"}
       /\ airStatus = ee.AirStatus
       /\ IF isAir THEN needAirSingle ELSE ~needAirSingle
AirRecord == <<ee.AirStatus, ee.AirStart, ee.AirStop, ee.AirTime>>

\* C14: while power stays on, a step of a pass of loop() in which no
\* transition guard fires changes neither the persisted AirStatus and air
\* timestamps nor the level of pin 6.
C14_NoOpPass ==
    [][ NoGuardFires /\ pc' # "boot" => AirRecord' = AirRecord /\ pin' = pin ]_vars

\* the pass of loop() that has just ended ran setAirOn or setAirOff
TransitionPass == EndOfCycle /\ "AirStatus" \in Written
TransitionStamp == IF ee.AirStatus = 1 THEN ee.AirStart ELSE ee.AirStop

\* C15 as claimed: dual variant, power lost only between passes: a pass that
\* performed a transition ends with persisted Uptime = uptimeStoreTime = the
\* timestamp it persisted, and between passes the persisted AirStart and
\* AirStop never exceed the persisted Uptime.
C15_StampsNotAhead ==
    (Dual /\ losses # "mid") =>
        /\ (TransitionPass =>
                ee.Uptime = uptimeStoreTime /\ ee.Uptime = TransitionStamp)
        /\ (AtCycleBoundary =>
                ee.AirStart <= ee.Uptime /\ ee.AirStop <= ee.Uptime)

\* C15 amended: the same, as long as the cumulative uptime has not overflowed
\* the word; the equality at the end of a transition pass needs no such
\* condition.
C15_StampsNotAheadUntilWrap ==
    (Dual /\ losses # "mid") =>
        /\ (TransitionPass =>
                ee.Uptime = uptimeStoreTime /\ ee.Uptime = TransitionStamp)
        /\ (AtCycleBoundary /\ ~wrapped =>
                ee.AirStart <= ee.Uptime /\ ee.AirStop <= ee.Uptime)

C15_Witness ==
    /\ Dual /\ losses = "boundary" /\ ~wrapped
    /\ TransitionPass
    /\ ee.AirStatus = 0 /\ ee.AirStop = ee.Uptime /\ ee.AirStart < ee.AirStop

\* uptime between the persisted stop of the last air cycle and the start of
\* the one under way
Gap == IF Dual THEN Sub32(ee.AirStart, ee.AirStop) ELSE Sub32(airStart, ee.AirTime)
\* the persisted state is ON and both timestamps of Gap are those of this ON
GapDefined == ee.AirStatus = 1 /\ pc \notin {"on2", "stop2"}

\* C16: without power loss, every pass of loop() advancing uptime by at most
\* MaxDelta ticks: the uptime from the stop timestamp of one air cycle to the
\* start timestamp of the next is more than AIR_INTERVAL_MS and at most
\* AIR_INTERVAL_MS + MaxDelta.
C16_GapBound ==
    (losses = "none" /\ GapDefined) =>
        Gap > AIR_INTERVAL_MS /\ Gap <= AIR_INTERVAL_MS + MaxDelta

C16_Witness ==
    /\ losses = "none" /\ GapDefined /\ pc = "save"
    /\ wrapped
    /\ Gap = AIR_INTERVAL_MS + MaxDelta

\* C17: with power on for ever and loop() running for ever, each pass
\* counting at least one tick: whenever the persisted state is OFF it is
\* later ON, and whenever it is ON it is later OFF, also once the cumulative
\* uptime has overflowed the word.
C17_NeverStuck ==
    /\ (ee.AirStatus = 0) ~> (ee.AirStatus = 1)
    /\ (ee.AirStatus = 1) ~> (ee.AirStatus = 0)

\* an air cycle that began before the uptime overflowed and is still ON after
C17_Witness ==
    /\ wrapped /\ ee.AirStatus = 1 /\ pin = 1
    /\ (IF Dual THEN ee.AirStart ELSE airStart) > uptime

\* C18: power lost only between passes, the device completing passes of
\* loop() again and again (each counts at least one tick): whenever the
\* persisted state is OFF it is later ON.
C18_NoStarvation ==
    ([]<><<Save>>_vars) => ((ee.AirStatus = 0) ~> (ee.AirStatus = 1))

\* uptime counted since the last checkpoint, modulo the word
SinceCheckpoint == Sub32(uptime, uptimeStoreTime)

\* C19: whatever has wrapped, the checkpoint test at the end of a pass of
\* loop() fires only when at least UPTIME_STORE_INTERVAL_MS of uptime has
\* been counted since the last checkpoint, and it does fire once more than
\* UPTIME_STORE_INTERVAL_MS has been counted (so no later than one pass after
\* the interval is over).
C19_CheckpointAcrossWrap ==
    [][ pc = "save" /\ pc' = "count1" =>
            /\ (UptimeWritten => SinceCheckpoint >= UPTIME_STORE_INTERVAL_MS)
            /\ (~UptimeWritten => SinceCheckpoint <= UPTIME_STORE_INTERVAL_MS) ]_vars

StatusWrites == Cardinality({i \in DOMAIN writes : writes[i] = "AirStatus"})

\* C20: in every variant and every build, AIR_DURATION = 0 included: a pass
\* of loop() changes the persisted AirStatus at most once, and when it
\* enters setAirOff / stopAir it has not run setAirOn / startAir (it has not
\* written anything yet).
C20_OneTransitionPerPass ==
    /\ StatusWrites <= 1
    /\ (pc \in {"off1", "stop1"} => writes = << >>)

\* a pass of a build with AIR_DURATION = 0 that ran setAirOn / startAir
C20_Witness ==
    /\ AIR_DURATION = 0
    /\ EndOfCycle
    /\ airStatus = 0 /\ ee.AirStatus = 1
    /\ StatusWrites = 1

====
